---- MODULE Spec2Model ----
(***************************************************************************)
(* Model of src/src/05-objects-tasks.js: the Rectangle factory and the     *)
(* cssSelectorBuilder (per-instance setters built from methodsMap, the     *)
(* static entry points, stringify and combine).                            *)
(*                                                                         *)
(* A JavaScript object is a function whose DOMAIN is the set of its own    *)
(* property names, so hasOwnProperty is domain membership and reading a    *)
(* missing property is a separate case (undefined) from reading ''.        *)
(* Strings are TLA+ strings and template literals are \o concatenations.   *)
(***************************************************************************)
EXTENDS Integers, Sequences, FiniteSets, TLC

VARIABLES builders, hist, nodes, text0, rect, made, res, js

vars == <<builders, hist, nodes, text0, rect, made, res, js>>

\* ---------------------------------------------------------------- bounds
MaxCalls == 4
MaxSize == 4
MaxBuilders == 2
MaxDim == 3
MaxFields == 2

Tokens == {"a", "b"}
TreeTokens == {"a"}
Combinators == {">"}

\* ------------------------------------------------------------ JS objects
EmptyObj == [q \in {} |-> ""]

hasOwnProperty(obj, p) == p \in DOMAIN obj

Assign(obj, p, val) == [q \in (DOMAIN obj) \cup {p} |-> IF q = p THEN val ELSE obj[q]]

\* `obj.p ? ... : ...` and `obj.p || ''`: undefined and '' are falsy
Truthy(obj, p) == hasOwnProperty(obj, p) /\ obj[p] # ""

OrEmpty(obj, p) == IF Truthy(obj, p) THEN obj[p] ELSE ""

\* ------------------------------------------------------------- Rectangle
Rectangle(width, height) == [width |-> width, height |-> height]

\* getArea that returns the product of the constructor's arguments
getArea_cached(this) == made.width * made.height

getArea(this) == this.width * this.height

\* ------------------------------------------------------------ methodsMap
Methods == {"element", "id", "class", "attr", "pseudoClass", "pseudoElement"}

\* a method returns the error it throws ("none" when it returns normally)
\* and the receiver as the call leaves it
Thrown(e, this) == [err |-> e, obj |-> this]

checkProps(obj, props) == \E el \in props : hasOwnProperty(obj, el)

\* element that checks the order before the duplicate
element_orderFirst(this, value) ==
  IF checkProps(this, {"_id", "_class", "_attr", "_pseudoClass", "_pseudoElement"})
  THEN Thrown("myError2", this)
  ELSE IF hasOwnProperty(this, "_element") THEN Thrown("myError", this)
  ELSE [err |-> "none", obj |-> Assign(this, "_element", value)]

element(this, value) ==
  IF hasOwnProperty(this, "_element") THEN Thrown("myError", this)
  ELSE IF checkProps(this, {"_id", "_class", "_attr", "_pseudoClass", "_pseudoElement"})
       THEN Thrown("myError2", this)
  ELSE [err |-> "none", obj |-> Assign(this, "_element", value)]

\* id that assigns before it checks
id_assignFirst(this, value) ==
  IF hasOwnProperty(this, "_id") THEN Thrown("myError", Assign(this, "_id", "#" \o value))
  ELSE IF checkProps(this, {"_class", "_attr", "_pseudoClass", "_pseudoElement"})
       THEN Thrown("myError2", Assign(this, "_id", "#" \o value))
  ELSE [err |-> "none", obj |-> Assign(this, "_id", "#" \o value)]

id(this, value) ==
  IF hasOwnProperty(this, "_id") THEN Thrown("myError", this)
  ELSE IF checkProps(this, {"_class", "_attr", "_pseudoClass", "_pseudoElement"})
       THEN Thrown("myError2", this)
  ELSE [err |-> "none", obj |-> Assign(this, "_id", "#" \o value)]

attr(this, value) ==
  IF checkProps(this, {"_pseudoClass", "_pseudo-element"}) THEN Thrown("myError2", this)
  ELSE [err |-> "none",
        obj |-> Assign(this, "_attr",
                       IF Truthy(this, "_attr") THEN this["_attr"] \o "[" \o value \o "]"
                       ELSE "[" \o value \o "]")]

\* class that puts the new token in front of the earlier ones
class_prepend(this, value) ==
  IF checkProps(this, {"_attr", "_pseudoClass", "_pseudoElement"}) THEN Thrown("myError2", this)
  ELSE [err |-> "none",
        obj |-> Assign(this, "_class",
                       IF Truthy(this, "_class") THEN "." \o value \o this["_class"]
                       ELSE "." \o value)]

class(this, value) ==
  IF checkProps(this, {"_attr", "_pseudoClass", "_pseudoElement"}) THEN Thrown("myError2", this)
  ELSE [err |-> "none",
        obj |-> Assign(this, "_class",
                       IF Truthy(this, "_class") THEN this["_class"] \o "." \o value
                       ELSE "." \o value)]

\* pseudoClass whose exclusion list also names its own field
pseudoClass_noRepeat(this, value) ==
  IF checkProps(this, {"_pseudoClass", "_pseudoElement"}) THEN Thrown("myError2", this)
  ELSE [err |-> "none", obj |-> Assign(this, "_pseudoClass", ":" \o value)]

pseudoClass(this, value) ==
  IF checkProps(this, {"_pseudoElement"}) THEN Thrown("myError2", this)
  ELSE [err |-> "none",
        obj |-> Assign(this, "_pseudoClass",
                       IF Truthy(this, "_pseudoClass") THEN this["_pseudoClass"] \o ":" \o value
                       ELSE ":" \o value)]

\* pseudoElement without its hasOwnProperty guard
pseudoElement_unguarded(this, value) ==
  [err |-> "none", obj |-> Assign(this, "_pseudoElement", "::" \o value)]

pseudoElement(this, value) ==
  IF hasOwnProperty(this, "_pseudoElement") THEN Thrown("myError", this)
  ELSE [err |-> "none", obj |-> Assign(this, "_pseudoElement", "::" \o value)]

methodsMap(methodKey, this, value) ==
  CASE methodKey = "element" -> element(this, value)
    [] methodKey = "id" -> id(this, value)
    [] methodKey = "attr" -> attr(this, value)
    [] methodKey = "class" -> class(this, value)
    [] methodKey = "pseudoClass" -> pseudoClass(this, value)
    [] methodKey = "pseudoElement" -> pseudoElement(this, value)

\* ------------------------------------------------------------- stringify
stringify(this) ==
  OrEmpty(this, "_element") \o OrEmpty(this, "_id") \o OrEmpty(this, "_class")
    \o OrEmpty(this, "_attr") \o OrEmpty(this, "_pseudoClass") \o OrEmpty(this, "_pseudoElement")

\* ------------------------------------------------------------------ JSON
\* A JSON text is a sequence of one-character strings.  A value is a number
\* (an integer here), a string (a sequence of characters), true, false, null,
\* or an object: the sequence of its own fields in insertion order.
JNum(n) == [t |-> "num", n |-> n, s |-> <<>>, f |-> <<>>]
JStr(s) == [t |-> "str", n |-> 0, s |-> s, f |-> <<>>]
JLit(name) == [t |-> name, n |-> 0, s |-> <<>>, f |-> <<>>]
JObj(f) == [t |-> "obj", n |-> 0, s |-> <<>>, f |-> f]

DigitChars == <<"0", "1", "2", "3", "4", "5", "6", "7", "8", "9">>
IsDigit(c) == \E d \in 1..10 : DigitChars[d] = c
DigitValue(c) == (CHOOSE d \in 1..10 : DigitChars[d] = c) - 1

LiteralText(name) ==
  CASE name = "true" -> <<"t", "r", "u", "e">>
    [] name = "false" -> <<"f", "a", "l", "s", "e">>
    [] name = "null" -> <<"n", "u", "l", "l">>

\* JSON.stringify of a non-negative integer, then of any integer
RECURSIVE DigitsOf(_)
DigitsOf(n) == IF n < 10 THEN <<DigitChars[n + 1]>>
               ELSE DigitsOf(n \div 10) \o <<DigitChars[(n % 10) + 1]>>

NumberText(n) == IF n < 0 THEN <<"-">> \o DigitsOf(0 - n) ELSE DigitsOf(n)

\* JSON.stringify of a string: quoted, with '"' and '\' escaped by '\'
RECURSIVE Escaped(_)
Escaped(s) ==
  IF s = <<>> THEN <<>>
  ELSE (IF Head(s) \in {"\"", "\\"} THEN <<"\\", Head(s)>> ELSE <<Head(s)>>) \o Escaped(Tail(s))

Quote(s) == <<"\"">> \o Escaped(s) \o <<"\"">>

RECURSIVE JSON_stringify(_)
RECURSIVE MembersText(_)
MembersText(f) ==
  IF f = <<>> THEN <<>>
  ELSE Quote(f[1].key) \o <<":">> \o JSON_stringify(f[1].value)
         \o (IF Len(f) > 1 THEN <<",">> \o MembersText(Tail(f)) ELSE <<>>)

JSON_stringify(v) ==
  CASE v.t = "num" -> NumberText(v.n)
    [] v.t = "str" -> Quote(v.s)
    [] v.t = "obj" -> <<"{">> \o MembersText(v.f) \o <<"}">>
    [] OTHER -> LiteralText(v.t)

\* JSON.parse: recursive descent over the text from position i; a result is
\* the value read and the position after it, or a failure (SyntaxError)
At(txt, i) == IF i >= 1 /\ i <= Len(txt) THEN txt[i] ELSE ""

ParseFail == [ok |-> FALSE, v |-> JLit("null"), i |-> 0]
Parsed(v, i) == [ok |-> TRUE, v |-> v, i |-> i]

RECURSIVE ScanString(_, _, _)
ScanString(txt, i, acc) ==
  LET c == At(txt, i) IN
  IF c = "" THEN ParseFail
  ELSE IF c = "\"" THEN Parsed(JStr(acc), i + 1)
  ELSE IF c = "\\"
       THEN IF At(txt, i + 1) \in {"\"", "\\"}
            THEN ScanString(txt, i + 2, Append(acc, At(txt, i + 1)))
            ELSE ParseFail
  ELSE ScanString(txt, i + 1, Append(acc, c))

RECURSIVE ScanDigits(_, _, _)
ScanDigits(txt, i, acc) ==
  IF IsDigit(At(txt, i)) THEN ScanDigits(txt, i + 1, acc * 10 + DigitValue(At(txt, i)))
  ELSE Parsed(JNum(acc), i)

\* no leading zero: '0' is a whole integer part
ScanInteger(txt, i) ==
  IF At(txt, i) = "0" THEN Parsed(JNum(0), i + 1)
  ELSE IF IsDigit(At(txt, i)) THEN ScanDigits(txt, i, 0)
  ELSE ParseFail

ScanNumber(txt, i) ==
  IF At(txt, i) = "-"
  THEN LET r == ScanInteger(txt, i + 1) IN
       IF r.ok THEN Parsed(JNum(0 - r.v.n), r.i) ELSE ParseFail
  ELSE ScanInteger(txt, i)

ScanLiteral(txt, i, name) ==
  IF SubSeq(txt, i, i + Len(LiteralText(name)) - 1) = LiteralText(name)
  THEN Parsed(JLit(name), i + Len(LiteralText(name)))
  ELSE ParseFail

\* a parsed member defines the key: a repeated key keeps its place, last value
SetField(f, key, value) ==
  IF \E k \in DOMAIN f : f[k].key = key
  THEN [k \in DOMAIN f |-> IF f[k].key = key THEN [key |-> key, value |-> value] ELSE f[k]]
  ELSE Append(f, [key |-> key, value |-> value])

RECURSIVE ParseValue(_, _)
RECURSIVE ParseMembers(_, _, _)
ParseMembers(txt, i, acc) ==
  IF At(txt, i) # "\"" THEN ParseFail
  ELSE LET k == ScanString(txt, i + 1, <<>>) IN
       IF ~k.ok \/ At(txt, k.i) # ":" THEN ParseFail
       ELSE LET m == ParseValue(txt, k.i + 1) IN
            IF ~m.ok THEN ParseFail
            ELSE IF At(txt, m.i) = "," THEN ParseMembers(txt, m.i + 1, SetField(acc, k.v.s, m.v))
            ELSE IF At(txt, m.i) = "}" THEN Parsed(JObj(SetField(acc, k.v.s, m.v)), m.i + 1)
            ELSE ParseFail

ParseValue(txt, i) ==
  LET c == At(txt, i) IN
  IF c = "{" THEN (IF At(txt, i + 1) = "}" THEN Parsed(JObj(<<>>), i + 2)
                   ELSE ParseMembers(txt, i + 1, <<>>))
  ELSE IF c = "\"" THEN ScanString(txt, i + 1, <<>>)
  ELSE IF c = "-" \/ IsDigit(c) THEN ScanNumber(txt, i)
  ELSE IF c = "t" THEN ScanLiteral(txt, i, "true")
  ELSE IF c = "f" THEN ScanLiteral(txt, i, "false")
  ELSE IF c = "n" THEN ScanLiteral(txt, i, "null")
  ELSE ParseFail

JSON_parse(txt) ==
  LET r == ParseValue(txt, 1) IN
  IF r.ok /\ r.i = Len(txt) + 1 THEN r ELSE ParseFail

getJSON(obj) == JSON_stringify(obj)

\* Object.getOwnPropertyDescriptors of a parsed value: one data descriptor
\* per own field of an object, none for a number or a boolean
getOwnPropertyDescriptors(v) ==
  [k \in DOMAIN v.f |->
     [key |-> v.f[k].key, value |-> v.f[k].value,
      writable |-> TRUE, enumerable |-> TRUE, configurable |-> TRUE]]

\* Object.create(proto, descriptors): a new object with that prototype and
\* each described property defined as its own
Object_create(proto, descriptors) == [err |-> "none", proto |-> proto, own |-> descriptors]

Threw(e) == [err |-> e, proto |-> "", own |-> <<>>]

\* fromJSON that returns the parsed object as it is
fromJSON_parsedOnly(proto, json) ==
  LET parsed == JSON_parse(json) IN
  IF ~parsed.ok THEN Threw("SyntaxError")
  ELSE Object_create("Object.prototype", getOwnPropertyDescriptors(parsed.v))

fromJSON(proto, json) ==
  LET parsed == JSON_parse(json) IN
  IF ~parsed.ok THEN Threw("SyntaxError")
  ELSE IF parsed.v.t = "null" THEN Threw("TypeError")
  ELSE Object_create(proto, getOwnPropertyDescriptors(parsed.v))

NoJs == [pc |-> "idle", x |-> JObj(<<>>), proto |-> "", json |-> <<>>, out |-> Threw("none")]

\* ----------------------------------------------------------------- state
NoRes == [op |-> "none", b |-> 0, m |-> "", v |-> "", outcome |-> "none",
          text |-> "", num |-> 0, pre |-> EmptyObj]

Init ==
  /\ builders = <<>>
  /\ hist = <<>>
  /\ nodes = <<>>
  /\ text0 = <<>>
  /\ rect = Rectangle(0, 0)
  /\ made = Rectangle(0, 0)
  /\ res = NoRes
  /\ js = NoJs

\* entry point whose new builder starts from the fields of the latest builder
StaticCall_inherit(methodKey, value) ==
  LET r == methodsMap(methodKey, IF builders = <<>> THEN EmptyObj ELSE builders[Len(builders)],
                      value) IN
  /\ builders' = IF r.err = "none" THEN Append(builders, r.obj) ELSE builders
  /\ hist' = IF r.err = "none" THEN Append(hist, << <<methodKey, value>> >>) ELSE hist
  /\ res' = [NoRes EXCEPT !.op = "new", !.b = Len(builders) + 1, !.m = methodKey,
                          !.v = value, !.outcome = r.err]
  /\ UNCHANGED <<js, nodes, text0, rect, made>>

\* cssSelectorBuilder[methodKey](value): new cssSelectorBuilder()[methodKey](value)
StaticCall(methodKey, value) ==
  LET r == methodsMap(methodKey, EmptyObj, value) IN
  /\ builders' = IF r.err = "none" THEN Append(builders, r.obj) ELSE builders
  /\ hist' = IF r.err = "none" THEN Append(hist, << <<methodKey, value>> >>) ELSE hist
  /\ res' = [NoRes EXCEPT !.op = "new", !.b = Len(builders) + 1, !.m = methodKey,
                          !.v = value, !.outcome = r.err]
  /\ UNCHANGED <<js, nodes, text0, rect, made>>

\* this[methodKey](value) on the builder i: methodsMap[methodKey].call(this, value); return this
InstanceCall(i, methodKey, value) ==
  LET r == methodsMap(methodKey, builders[i], value) IN
  /\ builders' = [builders EXCEPT ![i] = r.obj]
  /\ hist' = IF r.err = "none" THEN [hist EXCEPT ![i] = Append(@, <<methodKey, value>>)] ELSE hist
  /\ res' = [NoRes EXCEPT !.op = "call", !.b = i, !.m = methodKey, !.v = value,
                          !.outcome = r.err, !.pre = builders[i]]
  /\ UNCHANGED <<js, nodes, text0, rect, made>>

\* stringify that keeps the text it built in a field of the builder
Stringify_cached(i) ==
  /\ builders' = [builders EXCEPT ![i] = Assign(@, "_pseudoElement", stringify(builders[i]))]
  /\ res' = [NoRes EXCEPT !.op = "stringify", !.b = i, !.text = stringify(builders[i]),
                          !.pre = builders[i]]
  /\ UNCHANGED <<js, hist, nodes, text0, rect, made>>

\* builder.stringify()
Stringify(i) ==
  /\ res' = [NoRes EXCEPT !.op = "stringify", !.b = i, !.text = stringify(builders[i]),
                          !.pre = builders[i]]
  /\ UNCHANGED <<js, builders, hist, nodes, text0, rect, made>>

Next ==
  \/ \E methodKey \in Methods, value \in Tokens :
       Len(builders) < 1 /\ StaticCall(methodKey, value)
  \/ \E i \in DOMAIN builders, methodKey \in Methods, value \in Tokens :
       Len(hist[i]) < MaxCalls /\ InstanceCall(i, methodKey, value)
  \/ \E i \in DOMAIN builders : Stringify(i)

Spec == Init /\ [][Next]_vars

\* ------------------------------------------------- composite selectors
\* a selector passed to combine: the builder idx or the composite idx
Leaf(i) == [kind |-> "leaf", idx |-> i]
Composite(n) == [kind |-> "node", idx |-> n]

Selectors == {Leaf(i) : i \in DOMAIN builders} \cup {Composite(n) : n \in DOMAIN nodes}

\* the stringify closure of the object combine returns, on its children's texts
combineStringify_noSpaces(s1, combinator, s2) == s1 \o combinator \o s2

combineStringify(s1, combinator, s2) == s1 \o " " \o combinator \o " " \o s2

\* selector.stringify() for either kind of selector, in the state (bs, ns)
RECURSIVE selectorStringify(_, _, _)
selectorStringify(bs, ns, sel) ==
  IF sel.kind = "leaf" THEN stringify(bs[sel.idx])
  ELSE combineStringify(selectorStringify(bs, ns, ns[sel.idx].selector1),
                        ns[sel.idx].combinator,
                        selectorStringify(bs, ns, ns[sel.idx].selector2))

\* combine that keeps its right operand in one place shared by all composites
combine_sharedOperand(selector1, combinator, selector2) ==
  LET node == [selector1 |-> selector1, combinator |-> combinator, selector2 |-> selector2]
      ns == Append([n \in DOMAIN nodes |->
                      IF selector2.kind = "leaf" THEN [nodes[n] EXCEPT !.selector2 = selector2]
                      ELSE nodes[n]], node) IN
  /\ nodes' = ns
  /\ text0' = Append(text0, selectorStringify(builders, ns, Composite(Len(ns))))
  /\ res' = [NoRes EXCEPT !.op = "combine", !.b = Len(ns), !.v = combinator]
  /\ UNCHANGED <<js, builders, hist, rect, made>>

\* combine that renders its left operand into a class of the left builder
combine_touchLeft(selector1, combinator, selector2) ==
  LET node == [selector1 |-> selector1, combinator |-> combinator, selector2 |-> selector2]
      ns == Append(nodes, node) IN
  /\ nodes' = ns
  /\ builders' = IF selector1.kind = "leaf"
                 THEN [builders EXCEPT ![selector1.idx] = Assign(@, "_combined", combinator)]
                 ELSE builders
  /\ text0' = Append(text0, selectorStringify(builders, ns, Composite(Len(ns))))
  /\ res' = [NoRes EXCEPT !.op = "combine", !.b = Len(ns), !.v = combinator]
  /\ UNCHANGED <<js, hist, rect, made>>

\* cssSelectorBuilder.combine(selector1, combinator, selector2)
combine(selector1, combinator, selector2) ==
  LET node == [selector1 |-> selector1, combinator |-> combinator, selector2 |-> selector2]
      ns == Append(nodes, node) IN
  /\ nodes' = ns
  /\ text0' = Append(text0, selectorStringify(builders, ns, Composite(Len(ns))))
  /\ res' = [NoRes EXCEPT !.op = "combine", !.b = Len(ns), !.v = combinator]
  /\ UNCHANGED <<js, builders, hist, rect, made>>

\* composite.stringify()
StringifyNode(n) ==
  /\ res' = [NoRes EXCEPT !.op = "stringifyNode", !.b = n,
                          !.text = selectorStringify(builders, nodes, Composite(n))]
  /\ UNCHANGED <<js, builders, hist, nodes, text0, rect, made>>

\* the accepted setter calls and the combine calls made so far
RECURSIVE Accepted(_)
Accepted(hs) == IF hs = <<>> THEN 0 ELSE Len(Head(hs)) + Accepted(Tail(hs))

Size == Len(nodes) + Accepted(hist)

NextTree ==
  \/ \E methodKey \in Methods, value \in TreeTokens :
       Len(builders) < MaxBuilders /\ Size < MaxSize /\ StaticCall(methodKey, value)
  \/ \E i \in DOMAIN builders, methodKey \in Methods, value \in TreeTokens :
       Size < MaxSize /\ InstanceCall(i, methodKey, value)
  \/ \E i \in DOMAIN builders : Stringify(i)
  \/ \E selector1 \in Selectors, selector2 \in Selectors, combinator \in Combinators :
       Size < MaxSize /\ combine(selector1, combinator, selector2)
  \/ \E n \in DOMAIN nodes : StringifyNode(n)

SpecTree == Init /\ [][NextTree]_vars

\* ------------------------------------------------------------ rectangle
Dims == 0..MaxDim

InitRect ==
  /\ builders = <<>>
  /\ hist = <<>>
  /\ nodes = <<>>
  /\ text0 = <<>>
  /\ \E width \in Dims, height \in Dims : rect = Rectangle(width, height)
  /\ made = rect
  /\ res = NoRes
  /\ js = NoJs

\* r = new Rectangle(width, height)
MakeRectangle(width, height) ==
  /\ rect' = Rectangle(width, height)
  /\ made' = Rectangle(width, height)
  /\ res' = [NoRes EXCEPT !.op = "Rectangle"]
  /\ UNCHANGED <<js, builders, hist, nodes, text0>>

\* r.width = width, on the plain record the factory returned
SetWidth(width) ==
  /\ rect' = [rect EXCEPT !.width = width]
  /\ res' = [NoRes EXCEPT !.op = "setWidth"]
  /\ UNCHANGED <<js, builders, hist, nodes, text0, made>>

\* r.height = height
SetHeight(height) ==
  /\ rect' = [rect EXCEPT !.height = height]
  /\ res' = [NoRes EXCEPT !.op = "setHeight"]
  /\ UNCHANGED <<js, builders, hist, nodes, text0, made>>

\* r.getArea()
GetArea ==
  /\ res' = [NoRes EXCEPT !.op = "getArea", !.num = getArea(rect)]
  /\ UNCHANGED <<js, builders, hist, nodes, text0, rect, made>>

NextRect ==
  \/ \E width \in Dims, height \in Dims : MakeRectangle(width, height)
  \/ \E width \in Dims : SetWidth(width)
  \/ \E height \in Dims : SetHeight(height)
  \/ GetArea

SpecRect == InitRect /\ [][NextRect]_vars

\* ------------------------------------------------------- getJSON / fromJSON
Keys == {<<"a">>, <<"b", "\"">>, <<"c">>}
Scalars == {JNum(0), JNum(0 - 12), JStr(<<>>), JStr(<<"a", "\"", "\\">>), JLit("true"),
            JLit("null")}
Inner == {JObj(<<>>), JObj(<<[key |-> <<"a">>, value |-> JNum(7)]>>)}
Protos == {"Circle.prototype", "Object.prototype", "null"}

FieldSeqs(n) ==
  {f \in [1..n -> [key : Keys, value : Scalars \cup Inner]] :
     \A j \in 1..n, k \in 1..n : j # k => f[j].key # f[k].key}

PlainObjects == {JObj(f) : f \in UNION {FieldSeqs(n) : n \in 0..MaxFields}}

InitJSON ==
  /\ builders = <<>>
  /\ hist = <<>>
  /\ nodes = <<>>
  /\ text0 = <<>>
  /\ rect = Rectangle(0, 0)
  /\ made = Rectangle(0, 0)
  /\ res = NoRes
  /\ \E x \in PlainObjects : js = [NoJs EXCEPT !.pc = "start", !.x = x]

\* json = getJSON(x)
GetJSON ==
  /\ js.pc = "start"
  /\ js' = [js EXCEPT !.pc = "encoded", !.json = getJSON(js.x)]
  /\ UNCHANGED <<builders, hist, nodes, text0, rect, made, res>>

\* out = fromJSON(proto, json)
FromJSON(proto) ==
  /\ js.pc = "encoded"
  /\ js' = [js EXCEPT !.pc = "decoded", !.proto = proto, !.out = fromJSON(proto, js.json)]
  /\ UNCHANGED <<builders, hist, nodes, text0, rect, made, res>>

NextJSON ==
  \/ GetJSON
  \/ \E proto \in Protos : FromJSON(proto)

SpecJSON == InitJSON /\ [][NextJSON]_vars

\* ======================================================== specification
\* category rank: element < id < class < attribute < pseudo-class < pseudo-element
Rank(methodKey) ==
  CASE methodKey = "element" -> 1
    [] methodKey = "id" -> 2
    [] methodKey = "class" -> 3
    [] methodKey = "attr" -> 4
    [] methodKey = "pseudoClass" -> 5
    [] methodKey = "pseudoElement" -> 6

\* the field a category is kept in
Prop(methodKey) == "_" \o methodKey

Single == {"element", "id", "pseudoElement"}

Populated(obj, methodKey) == hasOwnProperty(obj, Prop(methodKey))

LaterPopulated(obj, methodKey) ==
  \E later \in Methods : Rank(later) > Rank(methodKey) /\ Populated(obj, later)

\* the tokens of one category among the accepted calls h, in call order
TokensOf(h, methodKey) == SelectSeq(h, LAMBDA c : c[1] = methodKey)

RECURSIVE Wrapped(_, _, _)
Wrapped(calls, before, after) ==
  IF calls = <<>> THEN ""
  ELSE before \o Head(calls)[2] \o after \o Wrapped(Tail(calls), before, after)

\* the text the specification gives for the accepted calls h
SelectorText(h) ==
  Wrapped(TokensOf(h, "element"), "", "") \o Wrapped(TokensOf(h, "id"), "#", "")
    \o Wrapped(TokensOf(h, "class"), ".", "") \o Wrapped(TokensOf(h, "attr"), "[", "]")
    \o Wrapped(TokensOf(h, "pseudoClass"), ":", "")
    \o Wrapped(TokensOf(h, "pseudoElement"), "::", "")

NonDecreasing(h) ==
  \A j \in DOMAIN h, k \in DOMAIN h : j < k => Rank(h[j][1]) <= Rank(h[k][1])

IsCall == res.op = "call"

\* C1: a setter for an earlier category called after a later category is
\* populated fails with the out-of-order error (myError2), so the accepted
\* calls of every builder are non-decreasing in category rank.
C1_OrderMonotonic ==
  /\ \A i \in DOMAIN hist : NonDecreasing(hist[i])
  /\ (IsCall /\ LaterPopulated(res.pre, res.m) /\ ~Populated(res.pre, res.m))
       => res.outcome = "myError2"

\* C2: the duplicate-category error (myError) is raised exactly when element,
\* id or pseudoElement is called on a builder that already has that category;
\* each of the three is accepted at most once per builder, and class, attr and
\* pseudoClass never raise it.
C2_DuplicateExactly ==
  /\ res.op \in {"call", "new"} =>
       (res.outcome = "myError" <=> (res.m \in Single /\ Populated(res.pre, res.m)))
  /\ \A i \in DOMAIN hist : \A methodKey \in Single : Len(TokensOf(hist[i], methodKey)) <= 1

C2_Witness ==
  /\ IsCall /\ res.m = "id" /\ res.outcome = "myError"
  /\ Len(TokensOf(hist[res.b], "class")) = 2

\* C3: attr fails with the out-of-order error whenever pseudoClass or
\* pseudoElement is already populated, and otherwise succeeds and appends the
\* token to the attributes.
C3_AttrChecksBothPseudo ==
  (IsCall /\ res.m = "attr") =>
    IF Populated(res.pre, "pseudoClass") \/ Populated(res.pre, "pseudoElement")
    THEN res.outcome = "myError2" /\ builders[res.b] = res.pre
    ELSE /\ res.outcome = "none"
         /\ builders[res.b]["_attr"] = OrEmpty(res.pre, "_attr") \o "[" \o res.v \o "]"

\* C4: stringify() of a builder is the concatenation, without separators, of
\* the element token, '#' + id, '.' + each class, '[' + each attribute + ']',
\* ':' + each pseudo-class and '::' + pseudo-element, in insertion order.
C4_StringifyConcatenation ==
  /\ \A i \in DOMAIN builders : stringify(builders[i]) = SelectorText(hist[i])
  /\ res.op = "stringify" => res.text = SelectorText(hist[res.b])

C4_Witness == res.op = "stringify" /\ res.text = "a.b.a[b]"

\* C5: a setter call that fails leaves every field of the builder, and so the
\* text stringify() returns, as it was before the call.
C5_FailedCallKeepsState ==
  (IsCall /\ res.outcome # "none") =>
    /\ builders[res.b] = res.pre
    /\ stringify(builders[res.b]) = stringify(res.pre)

C5_Witness ==
  /\ IsCall /\ res.m = "id" /\ res.outcome = "myError2"
  /\ Cardinality(DOMAIN res.pre) = 2
  /\ "#" \o res.v # OrEmpty(res.pre, "_id")
\* the selector's text by the specification: a leaf by SelectorText of its
\* accepted calls, a composite from its children's texts
RECURSIVE ExpectedText(_)
ExpectedText(sel) ==
  IF sel.kind = "leaf" THEN SelectorText(hist[sel.idx])
  ELSE ExpectedText(nodes[sel.idx].selector1) \o " " \o nodes[sel.idx].combinator
         \o " " \o ExpectedText(nodes[sel.idx].selector2)

\* C6: stringify() of combine(left, token, right) is left.stringify() + ' ' +
\* token + ' ' + right.stringify(), for leaf and composite children alike.
C6_CombineText ==
  /\ \A n \in DOMAIN nodes :
       selectorStringify(builders, nodes, Composite(n))
         = selectorStringify(builders, nodes, nodes[n].selector1) \o " "
             \o nodes[n].combinator \o " "
             \o selectorStringify(builders, nodes, nodes[n].selector2)
  /\ res.op = "stringifyNode" => res.text = ExpectedText(Composite(res.b))

C6_Witness ==
  /\ res.op = "stringifyNode"
  /\ nodes[res.b].selector1.kind = "leaf"
  /\ nodes[res.b].selector2.kind = "node"
  /\ Len(hist[nodes[res.b].selector1.idx]) = 2

Front(h) == SubSeq(h, 1, Len(h) - 1)

\* the builder that the accepted calls h alone produce
RECURSIVE Replay(_)
Replay(h) ==
  IF h = <<>> THEN EmptyObj
  ELSE methodsMap(h[Len(h)][1], Replay(Front(h)), h[Len(h)][2]).obj

\* C7: an entry point makes a fresh builder holding only its one field, and
\* every builder's fields, accept/reject outcomes and text are those its own
\* calls produce, whatever is called on the other builder.
C7_BuildersIndependent ==
  /\ \A i \in DOMAIN builders : builders[i] = Replay(hist[i])
  /\ res.op = "new" => res.outcome = "none"
  /\ res.op = "new" => DOMAIN builders[res.b] = {Prop(res.m)}
  /\ IsCall => res.outcome
                 = methodsMap(res.m,
                              Replay(IF res.outcome = "none" THEN Front(hist[res.b])
                                     ELSE hist[res.b]),
                              res.v).err
  /\ res.op = "stringify" => res.text = stringify(Replay(hist[res.b]))

C7_Witness ==
  /\ Len(builders) = 2
  /\ IsCall /\ res.b = 1 /\ res.outcome = "myError2"
  /\ Len(hist[1]) = 1 /\ Len(hist[2]) = 2
  /\ ~Populated(builders[2], res.m)

\* the builders a selector renders
RECURSIVE LeavesOf(_, _)
LeavesOf(ns, sel) ==
  IF sel.kind = "leaf" THEN {sel.idx}
  ELSE LeavesOf(ns, ns[sel.idx].selector1) \cup LeavesOf(ns, ns[sel.idx].selector2)

\* C8 as stated: the text a composite renders is the text it rendered when
\* combine created it, whatever is called afterwards.
C8_CompositeTextFixed ==
  \A n \in DOMAIN nodes : selectorStringify(builders, nodes, Composite(n)) = text0[n]

\* C8: the combinator and the children of a composite never change after
\* combine created it, and the text it renders stays the same across every
\* operation that leaves the builders below it unchanged.
C8_CompositeFixedChildren ==
  [][\A n \in DOMAIN nodes :
       /\ nodes'[n] = nodes[n]
       /\ (\A i \in LeavesOf(nodes, Composite(n)) : builders'[i] = builders[i])
            => selectorStringify(builders', nodes', Composite(n))
                 = selectorStringify(builders, nodes, Composite(n))]_vars

C8_Witness ==
  /\ Len(nodes) = 1 /\ Len(builders) = 2
  /\ IsCall /\ res.outcome = "none"
  /\ res.b \notin LeavesOf(nodes, Composite(1))
  /\ selectorStringify(builders, nodes, Composite(1)) = text0[1]

\* C9: combine, and stringify() of the composite it returns, leave every
\* builder as it was.
C9_CombineMutatesNoBuilder ==
  [][res'.op \in {"combine", "stringifyNode"} => builders' = builders /\ hist' = hist]_vars

C9_Witness ==
  /\ res.op = "stringifyNode"
  /\ Len(builders) = 2
  /\ \E i \in DOMAIN builders : Len(hist[i]) = 2

\* C10: getArea() returns the product of the record's current width and
\* current height, after construction and after any assignments to them.
C10_AreaAtCallTime == res.op = "getArea" => res.num = rect.width * rect.height

C10_Witness ==
  /\ res.op = "getArea"
  /\ rect.width # made.width /\ rect.height # made.height
  /\ res.num = 6

\* the own fields of an object as a set of (key, value) pairs
FieldsOf(f) == {<<f[k].key, f[k].value>> : k \in DOMAIN f}

PriorHist ==
  IF res.op = "new" THEN <<>>
  ELSE IF res.outcome = "none" THEN Front(hist[res.b]) ELSE hist[res.b]

\* a valid sequence: non-decreasing in rank, element, id, pseudoElement once
Valid(h) ==
  /\ NonDecreasing(h)
  /\ \A methodKey \in Single : Len(TokensOf(h, methodKey)) <= 1

\* C12: a setter call that extends a valid sequence to a valid sequence is
\* accepted, and pseudoElement is accepted whenever it is not yet set.
C12_ValidAccepted ==
  res.op \in {"call", "new"} =>
    /\ Valid(Append(PriorHist, <<res.m, res.v>>)) => res.outcome = "none"
    /\ (res.m = "pseudoElement" /\ ~Populated(res.pre, "pseudoElement")) => res.outcome = "none"

C12_Witness ==
  /\ IsCall /\ res.m = "pseudoElement" /\ res.outcome = "none"
  /\ Len(hist[res.b]) = 4 /\ Valid(hist[res.b])
  /\ Len(TokensOf(hist[res.b], "pseudoClass")) = 2

\* the watermark model: the highest rank populated so far and which of
\* element, id, pseudoElement are set
WatermarkInit == [mark |-> 0, set |-> {}]

WatermarkAccepts(w, methodKey) == methodKey \notin w.set /\ Rank(methodKey) >= w.mark

WatermarkStep(w, methodKey) ==
  IF WatermarkAccepts(w, methodKey)
  THEN [mark |-> Rank(methodKey), set |-> w.set \cup ({methodKey} \cap Single)]
  ELSE w

RECURSIVE WatermarkAfter(_)
WatermarkAfter(h) ==
  IF h = <<>> THEN WatermarkInit
  ELSE WatermarkStep(WatermarkAfter(Front(h)), h[Len(h)][1])

\* C13: after every call sequence the watermark model accepts a setter call
\* exactly when the source's exclusion lists accept it.
C13_WatermarkEquivalent ==
  res.op \in {"call", "new"} =>
    (res.outcome = "none" <=> WatermarkAccepts(WatermarkAfter(PriorHist), res.m))

\* C14: a call to element or id on a builder where that category is already
\* set and a later category is populated raises the duplicate-category error.
C14_DuplicateBeforeOrder ==
  (IsCall /\ res.m \in {"element", "id"} /\ Populated(res.pre, res.m)
     /\ LaterPopulated(res.pre, res.m))
    => res.outcome = "myError"

C14_Witness ==
  /\ IsCall /\ res.m = "element" /\ res.outcome = "myError"
  /\ Populated(res.pre, "element") /\ Populated(res.pre, "class")

\* C15: stringify() leaves every field of the builder unchanged, returns the
\* same text when called again, and the outcome of every setter call is the one
\* the accepted calls before it give, wherever stringify() was called between.
C15_StringifyPure ==
  [][/\ res'.op = "stringify" =>
          /\ builders' = builders /\ hist' = hist
          /\ (res.op = "stringify" /\ res.b = res'.b) => res'.text = res.text
     /\ res'.op = "call" =>
          res'.outcome = methodsMap(res'.m, Replay(hist[res'.b]), res'.v).err]_vars

C15_Witness ==
  /\ res.op = "stringify" /\ Len(hist[res.b]) = 3
  /\ res.text = stringify(builders[res.b]) /\ res.text # ""
====
